---- MODULE Spec2Model ----
(***************************************************************************)
(* psswrd: pronounceable passwords from an N-gram table and a template.    *)
(* The model follows src/src/psswrd/psswrd.py: Ngram.__init__,             *)
(* Ngram.__getitem__, Ngram.phrase, generate_password, password_gui, main. *)
(* Strings are sequences of one-character strings.  A random draw is a     *)
(* nondeterministic choice over the outcomes that have positive            *)
(* probability.                                                            *)
(***************************************************************************)
EXTENDS Integers, Sequences, FiniteSets, TLC

\* ------------------------------------------------------------------ bounds
MaxCorpus == 3
MaxLongCorpus == 5
MaxOrder == 2
MaxTemplate == 2
MaxContext == 3
MaxRaw == 5
\* the random source yields an index below MaxDraw
MaxDraw == 4

\* ------------------------------------------------------------- characters
LowerLetters ==
  <<"a","b","c","d","e","f","g","h","i","j","k","l","m",
    "n","o","p","q","r","s","t","u","v","w","x","y","z">>

UpperLetters ==
  <<"A","B","C","D","E","F","G","H","I","J","K","L","M",
    "N","O","P","Q","R","S","T","U","V","W","X","Y","Z">>

DigitPool == <<"0","1","2","3","4","5","6","7","8","9">>

PunctPool == <<"!","@","#","$","%","&","*","+","-","=","?",";">>

DefaultTemplate == <<"l","l","l","l","l","l","l","l","d","d","d">>

Range(f) == { f[i] : i \in DOMAIN f }

\* str.upper() on one ASCII character
Upper(c) ==
  IF \E i \in DOMAIN LowerLetters : LowerLetters[i] = c
  THEN UpperLetters[CHOOSE i \in DOMAIN LowerLetters : LowerLetters[i] = c]
  ELSE c

\* str.lower() on one ASCII character
Lower(c) ==
  IF \E i \in DOMAIN UpperLetters : UpperLetters[i] = c
  THEN LowerLetters[CHOOSE i \in DOMAIN UpperLetters : UpperLetters[i] = c]
  ELSE c

LowerStr(s) == [ i \in 1..Len(s) |-> Lower(s[i]) ]

\* the regex class [\W\d] on ASCII: everything but letters and underscore
MatchesNonWordOrDigit(c) ==
  ~ (c \in Range(LowerLetters) \/ c \in Range(UpperLetters) \/ c = "_")

\* re.sub(r"[\W\d]", "", text).lower()
Clean(raw) == LowerStr(SelectSeq(raw, LAMBDA c : ~ MatchesNonWordOrDigit(c)))

\* ---------------------------------------------------- Python sequence ops
Min2(a, b) == IF a < b THEN a ELSE b

Max2(a, b) == IF a > b THEN a ELSE b

\* a slice bound k normalised against a sequence of length len
PyClamp(k, len) == IF k < 0 THEN Max2(len + k, 0) ELSE Min2(k, len)

\* s[a:b]
Slice(s, a, b) == SubSeq(s, PyClamp(a, Len(s)) + 1, PyClamp(b, Len(s)))

\* s[a:]
SliceFrom(s, a) == SubSeq(s, PyClamp(a, Len(s)) + 1, Len(s))

\* s[k] is defined (no IndexError)
ValidIndex(s, k) == (IF k < 0 THEN k + Len(s) ELSE k) \in 0..(Len(s) - 1)

\* s[k]
Index(s, k) == s[(IF k < 0 THEN k + Len(s) ELSE k) + 1]

Reverse(s) == [ i \in 1..Len(s) |-> s[Len(s) + 1 - i] ]

\* ------------------------------------------------------- Ngram.__init__
EmptyTable == << >>

\* table[pre][nxt] += 1 on a defaultdict(Counter)
Incr(tbl, pre, nxt) ==
  IF pre \in DOMAIN tbl
  THEN IF nxt \in DOMAIN tbl[pre]
       THEN [tbl EXCEPT ![pre] = [@ EXCEPT ![nxt] = @ + 1]]
       ELSE [tbl EXCEPT ![pre] = (nxt :> 1) @@ @]
  ELSE (pre :> (nxt :> 1)) @@ tbl

\* pre = pre[1:] (line 52)
DropLeading(pre) == SliceFrom(pre, 1)

\* while pre: table[pre][nxt] += 1; pre = pre[1:]
RECURSIVE AddSuffixes(_, _, _)
AddSuffixes(tbl, pre, nxt) ==
  IF pre = << >> THEN tbl
  ELSE AddSuffixes(Incr(tbl, pre, nxt), DropLeading(pre), nxt)

WindowCountShort(crp, order) == Max2(Len(crp) - order - 1, 0)

\* the number of iterations of range(0, len(corpus) - n)
WindowCount(crp, order) == Max2(Len(crp) - order, 0)

\* for i in range(0, len(corpus) - n): ...
RECURSIVE BuildLoop(_, _, _, _)
BuildLoop(tbl, crp, order, i) ==
  IF i >= WindowCount(crp, order) THEN [error |-> "none", table |-> tbl]
  ELSE IF ~ ValidIndex(crp, i + order)
       THEN [error |-> "IndexError", table |-> EmptyTable]
       ELSE BuildLoop(AddSuffixes(tbl, Slice(crp, i, i + order),
                                  Index(crp, i + order)),
                      crp, order, i + 1)

NgramInit(crp, order) == BuildLoop(EmptyTable, crp, order, 0)

\* ---------------------------------------------------- Ngram.__getitem__
\* the candidates random.choices can return: those of positive weight
Support(ctr) == { c \in DOMAIN ctr : ctr[c] > 0 }

TruncateNone(pre, order) == pre

\* pre = pre[-self.n:]
Truncate(pre, order) == SliceFrom(pre, 0 - order)

ShortenOnMissRight(pre) == Slice(pre, 0, 0 - 1)

\* except KeyError: pre = pre[1:]
ShortenOnMiss(pre) == SliceFrom(pre, 1)

TableAfterMissInserting(tbl, pre) == (pre :> << >>) @@ tbl

\* self.table = dict(table): the lookup table[pre] of a plain dict raises
\* KeyError on a missing key and leaves the dict as it was
TableAfterMiss(tbl, pre) == tbl

\* while pre: try: ctr = table[pre] ... except KeyError: pre = pre[1:]
RECURSIVE Backoff(_, _, _)
Backoff(tbl, pre, steps) ==
  IF pre = << >>
  THEN [hit |-> FALSE, key |-> << >>, shortens |-> steps, table |-> tbl]
  ELSE IF pre \in DOMAIN tbl
       THEN [hit |-> TRUE, key |-> pre, shortens |-> steps, table |-> tbl]
       ELSE Backoff(TableAfterMiss(tbl, pre), ShortenOnMiss(pre), steps + 1)

\* The outcomes of self[ctx]: the character returned, the key whose counter
\* was drawn from on a hit, whether lines 73-74 ran, the number of
\* shortening steps, and the random draws spent (choice, choices).
Sample(tbl, order, ctx) ==
  LET b == Backoff(tbl, Truncate(ctx, order), 0) IN
  IF b.hit
  THEN { [error |-> "none", char |-> c, key |-> b.key, fallback |-> FALSE,
          shortens |-> b.shortens, draws |-> 1, table |-> b.table]
         : c \in Support(b.table[b.key]) }
  ELSE IF DOMAIN b.table = {}
       THEN { [error |-> "IndexError", char |-> "", key |-> << >>,
               fallback |-> TRUE, shortens |-> b.shortens, draws |-> 0,
               table |-> b.table] }
       ELSE { [error |-> "none", char |-> c, key |-> << >>, fallback |-> TRUE,
               shortens |-> b.shortens, draws |-> 2, table |-> b.table]
              : c \in UNION { Support(b.table[k]) : k \in DOMAIN b.table } }

\* ---------------------------------------------------- generate_password
PhraseLengthShort(t) == Len(t) - 1

LetterDirectives == {"u", "l", "m"}

PhraseLengthLettersOnly(t) ==
  Cardinality({ i \in 1..Len(t) : t[i] \in LetterDirectives })

\* pwd_len = len(template); ngram.phrase(pwd_len)
PhraseLength(t) == Len(t)

PhraseStackNoReverse(str) == str

\* phrase = list(...); phrase.reverse()
PhraseStack(str) == Reverse(str)

DirectiveIgnoringCase(c) ==
  IF Lower(c) \in {"u", "l", "m", "d", "p"} THEN Lower(c) ELSE "literal"

\* the branch of the if/elif chain that template character c takes
Directive(c) ==
  IF c \in {"u", "l", "m", "d", "p"} THEN c ELSE "literal"

\* random.choice(seq) of a literal sequence: the entries at the indices the
\* random source yields
Choice(seq) == { seq[i] : i \in 1..Min2(Len(seq), MaxDraw) }

\* what the branch appends to pwd, given the popped phrase letter pc
Emit(c, pc) ==
  CASE Directive(c) = "u" -> { Upper(pc) }
    [] Directive(c) = "l" -> { pc }
    [] Directive(c) = "m" -> Choice(<< Lower(pc), Upper(pc) >>)
    [] Directive(c) = "d" -> Choice(DigitPool)
    [] Directive(c) = "p" -> Choice(PunctPool)
    [] OTHER -> { c }

\* the branch calls phrase.pop()
Pops(c) == Directive(c) \in LetterDirectives

\* ------------------------------------------------------------ the state
VARIABLES
  corpus,      \* the corpus last handed to Ngram(corpus, n)
  n,           \* self.n
  table,       \* self.table
  outcome,     \* of Ngram(corpus, n): "none" (not called), "model", or the exception raised
  op,          \* the operation the last step belongs to
  pc,          \* "idle" (with the caller), "sampled" (__getitem__ at its return),
               \* "phrase" (loop of Ngram.phrase), "apply" (loop over template),
               \* "done" (generate_password at its return), "failed" (an exception left the call)
  template,    \* generate_password's template
  s,           \* Ngram.phrase's accumulated string
  phrase,      \* generate_password's phrase list (reversed, popped from its end)
  pwd,         \* generate_password's pwd list
  pos,         \* the number of template characters processed
  nSample,     \* the calls of __getitem__ made by the current generate_password call
  modelDraws,  \* the random draws those calls spent
  err,         \* the exception that ended the current call, or "none"
  last         \* what the last call of __getitem__ did

vars == << corpus, n, table, outcome, op, pc, template, s, phrase, pwd, pos,
           nSample, modelDraws, err, last >>

modelVars == << corpus, n, table, outcome >>

CorpusChars == {"a", "b"}

TemplateChars == {"u", "l", "m", "d", "p", "U", "-"}

RawChars == {"a", "B", "_", "7", "-", " "}

SeqsUpTo(S, k) == UNION { [1..j -> S] : j \in 0..k }

Corpora == SeqsUpTo(CorpusChars, MaxCorpus)

LongCorpora == SeqsUpTo(CorpusChars, MaxLongCorpus)

Orders == (0 - 1)..MaxOrder

Contexts == SeqsUpTo(CorpusChars, MaxContext)

Templates == SeqsUpTo(TemplateChars, MaxTemplate)

RawTexts == SeqsUpTo(RawChars, MaxRaw)

NoSample ==
  [called |-> FALSE, ctx |-> << >>, key |-> << >>, fallback |-> FALSE,
   shortens |-> 0, char |-> "", error |-> "none"]

SampleRecord(ctx, r) ==
  [called |-> TRUE, ctx |-> ctx, key |-> r.key, fallback |-> r.fallback,
   shortens |-> r.shortens, char |-> r.char, error |-> r.error]

Init ==
  /\ corpus = << >>
  /\ n = 0
  /\ table = EmptyTable
  /\ outcome = "none"
  /\ op = "none"
  /\ pc = "idle"
  /\ template = << >>
  /\ s = << >>
  /\ phrase = << >>
  /\ pwd = << >>
  /\ pos = 0
  /\ nSample = 0
  /\ modelDraws = 0
  /\ err = "none"
  /\ last = NoSample

\* the locals of a call that has returned are gone
NoCall ==
  /\ template' = << >>
  /\ s' = << >>
  /\ phrase' = << >>
  /\ pwd' = << >>
  /\ pos' = 0
  /\ nSample' = 0
  /\ modelDraws' = 0
  /\ err' = "none"

\* ngram = Ngram(crp, order)
Construct(crp, order) ==
  LET r == NgramInit(crp, order) IN
  /\ corpus' = crp
  /\ n' = order
  /\ table' = r.table
  /\ outcome' = IF r.error = "none" THEN "model" ELSE r.error

\* generate_password(ngram, t) up to the first iteration of a loop
Enter(t) ==
  /\ template' = t
  /\ s' = << >>
  /\ phrase' = << >>
  /\ pwd' = << >>
  /\ pos' = 0
  /\ nSample' = 0
  /\ modelDraws' = 0
  /\ err' = "none"
  /\ last' = NoSample
  /\ op' = "Generate"
  /\ pc' = IF PhraseLength(t) > 0 THEN "phrase"
           ELSE IF Len(t) = 0 THEN "done" ELSE "apply"

\* a caller builds a model
Build(crp, order) ==
  /\ pc = "idle"
  /\ Construct(crp, order)
  /\ op' = "Build"
  /\ pc' = "idle"
  /\ last' = NoSample
  /\ NoCall

\* a caller evaluates ngram[ctx]
SampleCall(ctx) ==
  /\ pc = "idle"
  /\ outcome = "model"
  /\ \E r \in Sample(table, n, ctx) :
       /\ table' = r.table
       /\ last' = SampleRecord(ctx, r)
  /\ op' = "Sample"
  /\ pc' = "sampled"
  /\ UNCHANGED << corpus, n, outcome, template, s, phrase, pwd, pos,
                  nSample, modelDraws, err >>

\* a caller calls generate_password(ngram, t)
Generate(t) ==
  /\ pc = "idle"
  /\ outcome = "model"
  /\ Enter(t)
  /\ UNCHANGED modelVars

\* one iteration of the loop of Ngram.phrase: s += self[s]; after the
\* last one, the phrase is returned, made a list and reversed
PhraseStep ==
  /\ pc = "phrase"
  /\ \E r \in Sample(table, n, s) :
       /\ table' = r.table
       /\ last' = SampleRecord(s, r)
       /\ nSample' = nSample + 1
       /\ modelDraws' = modelDraws + r.draws
       /\ err' = r.error
       /\ s' = IF r.error = "none" THEN Append(s, r.char) ELSE s
       /\ phrase' = IF r.error = "none" /\ Len(s) + 1 = PhraseLength(template)
                   THEN PhraseStack(Append(s, r.char)) ELSE phrase
       /\ pc' = IF r.error # "none" THEN "failed"
                ELSE IF Len(s) + 1 = PhraseLength(template) THEN "apply"
                ELSE "phrase"
  /\ op' = "PhraseStep"
  /\ UNCHANGED << corpus, n, outcome, template, pwd, pos >>

\* one iteration of "for c in template"; after the last one, the joined
\* pwd is returned
ApplyStep ==
  /\ pc = "apply"
  /\ LET c == template[pos + 1]
         empty == Pops(c) /\ phrase = << >>
         top == IF phrase = << >> THEN "" ELSE phrase[Len(phrase)]
     IN \E out \in (IF empty THEN {""} ELSE Emit(c, top)) :
          /\ err' = IF empty THEN "IndexError" ELSE "none"
          /\ pwd' = IF empty THEN pwd ELSE Append(pwd, out)
          /\ phrase' = IF Pops(c) /\ ~ empty
                      THEN SubSeq(phrase, 1, Len(phrase) - 1) ELSE phrase
          /\ pos' = IF empty THEN pos ELSE pos + 1
          /\ pc' = IF empty THEN "failed"
                   ELSE IF pos + 1 = Len(template) THEN "done" ELSE "apply"
  /\ op' = "ApplyStep"
  /\ UNCHANGED << corpus, n, table, outcome, template, s, nSample,
                  modelDraws, last >>

\* return "".join(pwd), or the exception reaches the caller: control is
\* back with the caller
Return ==
  /\ pc \in {"sampled", "done", "failed"}
  /\ pc' = "idle"
  /\ op' = "Return"
  /\ last' = NoSample
  /\ NoCall
  /\ UNCHANGED modelVars

Next ==
  \/ pc = "idle" /\ \E crp \in Corpora, order \in Orders : Build(crp, order)
  \/ pc = "idle" /\ \E ctx \in Contexts : SampleCall(ctx)
  \/ pc = "idle" /\ \E t \in Templates : Generate(t)
  \/ PhraseStep
  \/ ApplyStep
  \/ Return

Spec == Init /\ [][Next]_vars

\* the model alone: callers that build models and evaluate ngram[ctx]
NextModel ==
  \/ pc = "idle" /\ \E crp \in LongCorpora, order \in Orders : Build(crp, order)
  \/ pc = "idle" /\ \E ctx \in Contexts : SampleCall(ctx)
  \/ Return

SpecModel == Init /\ [][NextModel]_vars

\* ------------------------------------------------------ main, password_gui
MainOrder == 3

GuiTemplates == Templates \cup { DefaultTemplate }

\* main(): the corpus is cleaned, the model built, and password_gui makes
\* its first call of generate_password with the default template
Main(raw) ==
  /\ outcome = "none"
  /\ Construct(Clean(raw), MainOrder)
  /\ Enter(DefaultTemplate)

\* password_gui after "Again": the template is read from the window and
\* generate_password is called with it
GuiAgain(t) ==
  /\ pc = "idle"
  /\ outcome = "model"
  /\ Enter(t)
  /\ UNCHANGED modelVars

\* password_gui after generate_password returned: the password is copied
\* and shown, and the window waits for the user
GuiShow ==
  /\ pc = "done"
  /\ pc' = "idle"
  /\ op' = "GuiShow"
  /\ last' = NoSample
  /\ NoCall
  /\ UNCHANGED modelVars

NextMain ==
  \/ outcome = "none" /\ \E raw \in RawTexts : Main(raw)
  \/ pc = "idle" /\ \E t \in GuiTemplates : GuiAgain(t)
  \/ PhraseStep
  \/ ApplyStep
  \/ GuiShow

SpecMain == Init /\ [][NextMain]_vars

\* ------------------------------------------------------------ properties
\* the inputs of Ngram(corpus, n) were valid: len(corpus) > n >= 1
ValidInputs == outcome # "none" /\ n >= 1 /\ Len(corpus) > n

ValidModel == outcome = "model" /\ n >= 1 /\ Len(corpus) > n

IsLowerLetter(c) == c \in Range(LowerLetters)

IsDigit(c) == c \in {"0","1","2","3","4","5","6","7","8","9"}

AllD(t) == \A i \in 1..Len(t) : t[i] = "d"

\* the number of letter directives among the first j template characters
LettersBefore(t, j) == Cardinality({ i \in 1..j : t[i] \in {"u", "l", "m"} })

\* the last k characters of ctx (all of it when it is shorter)
LastN(ctx, k) == SubSeq(ctx, Max2(Len(ctx) - k, 0) + 1, Len(ctx))

NonEmptySuffixes(str) == { SubSeq(str, i, Len(str)) : i \in 1..Len(str) }

KeySuffixes(tbl, order, ctx) == NonEmptySuffixes(LastN(ctx, order)) \cap DOMAIN tbl

Longest(S) == CHOOSE k \in S : \A j \in S : Len(j) <= Len(k)

IsSuffix(k, str) ==
  Len(k) <= Len(str) /\ SubSeq(str, Len(str) - Len(k) + 1, Len(str)) = k

CountIn(tbl, k, c) ==
  IF k \in DOMAIN tbl /\ c \in DOMAIN tbl[k] THEN tbl[k][c] ELSE 0

\* the window starts i with k a suffix of corpus[i:i+n] and corpus[i+n] = c
Windows(crp, order, k, c) ==
  { i \in 0..(Len(crp) - order - 1) :
      IsSuffix(k, SubSeq(crp, i + 1, i + order)) /\ crp[i + order + 1] = c }

\* C1: on a model built from len(corpus) > n >= 1, generate_password never
\* fails, no letter directive finds the phrase exhausted, and the result
\* has exactly len(template) characters (the empty string for the empty
\* template).
C1_GenerateTotal ==
  ValidModel =>
    /\ pc # "failed"
    /\ err = "none"
    /\ (pc = "apply" /\ template[pos + 1] \in {"u", "l", "m"} => phrase # << >>)
    /\ (pc = "done" => Len(pwd) = Len(template))

C1_Witness ==
  /\ ValidModel
  /\ pc = "done"
  /\ Len(template) >= 2
  /\ \A i \in 1..Len(template) : template[i] \in {"u", "l", "m"}
  /\ phrase = << >>
  /\ Len(pwd) = Len(template)

\* C2: building a model fails with InvalidOrderError when order < 1 and
\* with EmptyCorpusError when len(corpus) <= order; no model with an empty
\* table is handed to the caller.
C2_BuildFailsFast ==
  outcome # "none" =>
    /\ (n < 1 => outcome = "InvalidOrderError")
    /\ (n >= 1 /\ Len(corpus) <= n => outcome = "EmptyCorpusError")
    /\ (outcome = "model" => DOMAIN table # {})

\* C3: for the model main() builds, generate_password(model, "llllllllddd")
\* returns 8 lowercase ASCII letters followed by 3 decimal digits, every
\* phrase character being a lowercase ASCII letter.
C3_DefaultTemplateShape ==
  (pc = "done" /\ template = DefaultTemplate) =>
    /\ \A i \in 1..Len(s) : IsLowerLetter(s[i])
    /\ Len(pwd) = 11
    /\ \A i \in 1..8 : IsLowerLetter(pwd[i])
    /\ \A i \in 9..11 : IsDigit(pwd[i])

\* C4 as stated: for a template of 'd' only, the result is decimal digits
\* and the model is never consulted (no Sample call, no random draw spent
\* on the model).
C4_ModelNeverConsulted ==
  (pc = "done" /\ AllD(template)) =>
    /\ \A i \in 1..Len(pwd) : IsDigit(pwd[i])
    /\ nSample = 0
    /\ modelDraws = 0

\* C4 amended: for a template of 'd' only, the result is len(template)
\* decimal digits and no phrase letter is consumed, but the model is
\* consulted: phrase(len(template)) makes len(template) Sample calls, which
\* spend between len+1 and 2*len random draws before the first digit.
C4_DigitsAfterDiscardedPhrase ==
  (pc = "done" /\ AllD(template)) =>
    /\ Len(pwd) = Len(template)
    /\ \A i \in 1..Len(pwd) : IsDigit(pwd[i])
    /\ nSample = Len(template)
    /\ Len(s) = Len(template)
    /\ phrase = Reverse(s)
    /\ (template # << >> =>
          modelDraws \in (Len(template) + 1)..(2 * Len(template)))

C4_Witness ==
  /\ pc = "done"
  /\ Len(template) >= 2
  /\ AllD(template)
  /\ nSample = Len(template)
  /\ \A i \in 1..Len(pwd) : IsDigit(pwd[i])

\* C5: Sample draws from the counter of the longest non-empty suffix of the
\* last n context characters that is a key; the fallback is taken only
\* when no such suffix is a key.
C5_LongestSuffixBackoff ==
  (ValidModel /\ last.called /\ op \in {"Sample", "PhraseStep"}) =>
    IF KeySuffixes(table, n, last.ctx) # {}
    THEN /\ ~ last.fallback
         /\ last.key = Longest(KeySuffixes(table, n, last.ctx))
         /\ CountIn(table, last.key, last.char) > 0
    ELSE /\ last.fallback
         /\ \E k \in DOMAIN table : CountIn(table, k, last.char) > 0

C5_Witness ==
  /\ ValidModel
  /\ n >= 2
  /\ last.called
  /\ Len(last.ctx) >= n
  /\ LastN(last.ctx, n) \notin DOMAIN table
  /\ ~ last.fallback
  /\ Len(last.key) = n - 1
  /\ CountIn(table, last.key, last.char) > 0

C7_LiteralPassThrough ==
  pc \in {"apply", "done"} =>
    /\ \A j \in 1..Len(pwd) :
         template[j] \notin {"u", "l", "m", "d", "p"} => pwd[j] = template[j]
    /\ (pc = "done"
        /\ \A j \in 1..Len(template) : template[j] \notin {"u", "l", "m", "d", "p"})
       => (pwd = template /\ Len(phrase) = Len(template))

C7_Witness ==
  /\ ValidModel
  /\ pc = "done"
  /\ template = << "U", "-" >>
  /\ pwd = template

\* C8: with len(corpus) > n >= 1 the build succeeds, and every Sample call
\* ends without error after at most n shortening steps and at most one
\* fallback.
C8_SampleBounded ==
  ValidInputs =>
    /\ outcome = "model"
    /\ DOMAIN table # {}
    /\ last.called =>
         /\ last.error = "none"
         /\ last.shortens <= n
         /\ (last.fallback => last.shortens = Min2(n, Len(last.ctx)))

C8_Witness ==
  /\ ValidModel
  /\ last.called
  /\ Len(last.ctx) > n
  /\ last.fallback
  /\ last.shortens = n
  /\ last.error = "none"

\* C9: table[k][c] is the number of windows i with k a suffix of
\* corpus[i:i+n] and corpus[i+n] = c; a key is present exactly when some
\* count is positive, and no key is empty or longer than n.
C9_TableCounts ==
  (ValidModel /\ op = "Build") =>
    /\ \A k \in SeqsUpTo(Range(corpus), n) : \A c \in Range(corpus) :
         k # << >> =>
           /\ CountIn(table, k, c) = Cardinality(Windows(corpus, n, k, c))
           /\ (k \in DOMAIN table <=>
                 \E d \in Range(corpus) : Windows(corpus, n, k, d) # {})
    /\ \A k \in DOMAIN table :
         /\ k \in SeqsUpTo(Range(corpus), n)
         /\ Len(k) \in 1..n
         /\ DOMAIN table[k] \subseteq Range(corpus)
         /\ \A c \in DOMAIN table[k] : table[k][c] > 0

C9_Witness ==
  /\ ValidModel
  /\ op = "Build"
  /\ n = 2
  /\ \E k \in DOMAIN table : \E c \in DOMAIN table[k] :
       /\ Len(k) = 1
       /\ table[k][c] >= 2
       /\ \A j \in DOMAIN table : Len(j) = 2 => CountIn(table, j, c) <= 1

\* C10: once a model is built, no Sample, phrase or generate_password step
\* changes its table or its order.
C10_TableImmutable ==
  [][ (outcome = "model" /\ op' # "Build") => (table' = table /\ n' = n) ]_vars

C10_Witness ==
  /\ ValidModel
  /\ pc = "done"
  /\ nSample >= 2
  /\ last.called
  /\ last.fallback
  /\ last.shortens >= 1

====
